---- MODULE Spec2Model ----
(***************************************************************************)
(* Model of cloudinit/url_helper.py: readurl (one logical HTTP request     *)
(* with manual retries) and wait_for_url (polling of a list of candidate   *)
(* urls under a global deadline).                                          *)
(*                                                                         *)
(* Time is counted in ticks, TicksPerSec ticks to the second, so that the  *)
(* wall clock, max_wait and timeout can hold fractions of a second while   *)
(* int() truncates to whole seconds.  The code is Python 2: None compares  *)
(* below every number, and "/" on two ints is floor division.              *)
(* An optional value is a sequence: <<>> is None, <<x>> is the value x.    *)
(***************************************************************************)
EXTENDS Integers, Sequences, FiniteSets

\* ------------------------------------------------------------------ bounds
TicksPerSec == 2      \* clock resolution
MaxRetries == 2       \* largest retries argument of a direct readurl call
MaxFetch == 1         \* longest time (ticks) one transport request takes
LongWait == 15        \* the longest max_wait (seconds) of a poll
MaxRounds == 12       \* cap on loop_n; a poll within LongWait stays below it

\* --------------------------------------------------------- optional values
None == <<>>
Some(x) == <<x>>
IsNone(o) == o = <<>>
Val(o) == o[1]

Max(a, b) == IF a >= b THEN a ELSE b

\* Python truthiness of an optional number: None and 0 are false.
Truthy(o) == ~IsNone(o) /\ Val(o) # 0

\* int(x) of a duration x held in ticks: truncation toward zero to whole
\* seconds, the result again in ticks.
PyInt(x) == IF x >= 0 THEN (x \div TicksPerSec) * TicksPerSec
            ELSE -(((-x) \div TicksPerSec) * TicksPerSec)

\* int(x) of a duration in ticks, as a number of whole seconds.
PyIntSec(x) == IF x >= 0 THEN x \div TicksPerSec ELSE -((-x) \div TicksPerSec)

\* --------------------------------------------------------------- transport
Codes == {200, 503}

\* What one requests.request(**req_args) call can do: raise a
\* RequestException, raise some other exception, or return a response.
Outcomes ==
    {[kind |-> k, code |-> 0, empty |-> TRUE] : k \in {"RequestException", "Exception"}}
    \cup {[kind |-> "Response", code |-> c, empty |-> b] : c \in Codes, b \in BOOLEAN}

\* The success range of a status code (Response.raise_for_status, Response.ok).
StatusOk(code) == code >= 200 /\ code < 400

VARIABLES
    entry,        \* which function the caller invoked: "readurl" | "wait_for_url"
    pc,           \* position of the running call
    clock,        \* time.time(), in ticks
    \* readurl: arguments
    retries,      \* optional int
    sec_between,  \* optional int (seconds); None is replaced by -1 on entry
    sec_between_arg, \* sec_between as the caller passed it
    check_status, \* BOOLEAN
    rd_timeout,   \* optional duration (ticks): the timeout argument
    \* readurl: locals
    manual_tries, \* int
    req_timeout,  \* optional duration: req_args['timeout'], absent when None
    i,            \* loop index of the attempt loop
    excps,        \* list of recorded exceptions
    rd_log,       \* what this call did so far: requests and sleeps, in order
    rd_res,       \* how the call ended: [kind: "running"|"return"|"raise"|"none", ...]
    \* wait_for_url: arguments
    urls,         \* sequence of urls
    max_wait,     \* optional duration (ticks)
    timeout,      \* optional duration (ticks); reassigned when shrunk
    timeout_arg,  \* timeout as the caller passed it
    exception_cb, \* BOOLEAN: an exception callback was supplied
    headers_cb,   \* BOOLEAN: a headers callback was supplied
    sleep_time,   \* int (seconds); reassigned at the top of each round
    \* wait_for_url: locals
    start_time, loop_n, idx, now, reason, e,
    \* wait_for_url: observations
    cb_log,       \* callbacks invoked for the current url attempt, in order
    att_log,      \* the current url attempt: deadline check, shrink, what readurl
                  \* gave and how many requests and sleeps it made
    n_failed,     \* url attempts that ended in a failure
    n_status_cb,  \* calls of status_cb
    n_exc_cb,     \* calls of exception_cb
    w_sleeps,     \* the inter-round sleeps taken so far (seconds), in order
    w_res         \* how the call ended: [kind: "running"|"url"|"false", url]

rd_vars == <<retries, sec_between, sec_between_arg, check_status, rd_timeout, manual_tries,
             req_timeout, i, excps, rd_log, rd_res>>
w_args == <<urls, max_wait, timeout_arg, exception_cb, headers_cb>>
w_vars == <<timeout, sleep_time, start_time, loop_n, idx, now, reason, e,
            cb_log, att_log, n_failed, n_status_cb, n_exc_cb, w_sleeps, w_res>>
vars == <<entry, pc, clock, rd_vars, w_args, w_vars>>

\* ------------------------------------------------------- exceptions, results
\* The text of a failure: what happened and the status code it names.
Reason(what, code) == [what |-> what, code |-> code]
NoReason == Reason("", 0)

\* An exception object.  i is the attempt of readurl's loop that raised it and
\* att the url attempt <<loop_n, idx>> of wait_for_url it belongs to (<<0, 0>>
\* in a direct readurl call); together they tell exception objects apart.
Exc(type, n, a, text) == [type |-> type, i |-> n, att |-> a, text |-> text]
NoExc == Exc("none", 0, <<0, 0>>, NoReason)
\* "except Exception" where the code has "except exceptions.RequestException".
IsAnyException(x) == x.type # "none"

\* except exceptions.RequestException (HTTPError is one)
IsRequestException(x) == x.type \in {"RequestException", "HTTPError"}

Resp(code, empty) == [code |-> code, empty |-> empty]
NoResp == Resp(0, TRUE)

Running == [kind |-> "running", exc |-> NoExc, resp |-> NoResp]
Returned(r) == [kind |-> "return", exc |-> NoExc, resp |-> r]
Raised(x) == [kind |-> "raise", exc |-> x, resp |-> NoResp]
ReturnedNone == [kind |-> "none", exc |-> NoExc, resp |-> NoResp]

\* Entries of rd_log.
NoOut == [kind |-> "", code |-> 0, empty |-> TRUE]
ReqEv(n, t, out) == [ev |-> "req", i |-> n, arg |-> t, out |-> out]
SleepEv(n, s) == [ev |-> "sleep", i |-> n, arg |-> Some(s), out |-> NoOut]

\* ----------------------------------------------------------------- readurl
\* The timeout handed on as it came, without max(..., 0).
ReqTimeoutRaw(t) == t

\* req_args['timeout'] = max(float(timeout), 0), only when timeout is not None.
ReqTimeout(t) == IF IsNone(t) THEN None ELSE Some(Max(Val(t), 0))

\* The number of tries without the floor of 1.
ManualTriesNoFloor(r) == IF Truthy(r) THEN Val(r) + 1 ELSE 1

\* Off by one: one try more than retries + 1.
ManualTriesOneMore(r) == IF Truthy(r) THEN Max(Val(r) + 2, 1) ELSE 1

\* manual_tries = 1; if retries: manual_tries = max(int(retries) + 1, 1)
ManualTries(r) == IF Truthy(r) THEN Max(Val(r) + 1, 1) ELSE 1

\* if sec_between is None: sec_between = -1
SecBetween(sb) == IF IsNone(sb) THEN -1 ELSE Val(sb)

\* The try block without r.raise_for_status().
AttemptExcNoStatus(out, cs, n, a) ==
    IF out.kind = "RequestException" THEN Exc("RequestException", n, a, NoReason)
    ELSE IF out.kind = "Exception" THEN Exc("Exception", n, a, NoReason)
    ELSE NoExc

\* The exception the try block of one attempt raises on transport outcome out,
\* NoExc when the attempt reaches "return r".
AttemptExc(out, cs, n, a) ==
    IF out.kind = "RequestException" THEN Exc("RequestException", n, a, NoReason)
    ELSE IF out.kind = "Exception" THEN Exc("Exception", n, a, NoReason)
    ELSE IF cs /\ ~StatusOk(out.code)
         THEN Exc("HTTPError", n, a, Reason("http error", out.code))
    ELSE NoExc

\* The sleep test with ">= 0" where the code has "> 0".
ShouldSleepAtZero(n, tries, sb) == n + 1 < tries /\ sb >= 0

\* if i + 1 < manual_tries and sec_between > 0
ShouldSleep(n, tries, sb) == n + 1 < tries /\ sb > 0

\* Raising the first recorded failure instead of the last.
FirstFailure(xs) == xs[1]

\* raise excps[-1]
LastFailure(xs) == xs[Len(xs)]

\* Where control goes when readurl ends: back into wait_for_url's try block,
\* or to the direct caller.
RdExit == IF entry = "wait_for_url" THEN "wfu_eval" ELSE "done"

\* The url attempt of wait_for_url that this readurl call serves.
CurAtt == IF entry = "wait_for_url" THEN <<loop_n, idx>> ELSE <<0, 0>>

\* Lines 64-113: build req_args, count the tries, normalise sec_between.
RdEnter ==
    /\ pc = "rd_enter"
    /\ manual_tries' = ManualTries(retries)
    /\ req_timeout' = ReqTimeout(rd_timeout)
    /\ sec_between' = Some(SecBetween(sec_between))
    /\ excps' = <<>>
    /\ i' = 0
    /\ rd_log' = <<>>
    /\ rd_res' = Running
    /\ pc' = "rd_loop"
    /\ UNCHANGED <<entry, clock, retries, sec_between_arg, check_status, rd_timeout,
                   w_args, w_vars>>

\* Lines 116-139: one iteration of "for i in range(0, manual_tries)".
RdAttempt ==
    /\ pc = "rd_loop"
    /\ i < manual_tries
    /\ \E out \in Outcomes, d \in 0..MaxFetch :
         LET x == AttemptExc(out, check_status, i, CurAtt)
             sb == Val(sec_between)
             slept == IsRequestException(x) /\ ShouldSleep(i, manual_tries, sb)
         IN /\ rd_log' = Append(rd_log, ReqEv(i, req_timeout, out))
                         \o (IF slept THEN <<SleepEv(i, sb)>> ELSE <<>>)
            /\ clock' = clock + d + (IF slept THEN sb * TicksPerSec ELSE 0)
            /\ IF x = NoExc
               THEN /\ rd_res' = Returned(Resp(out.code, out.empty))
                    /\ pc' = RdExit
                    /\ UNCHANGED <<i, excps>>
               ELSE IF IsRequestException(x)
               THEN /\ excps' = Append(excps, x)
                    /\ i' = i + 1
                    /\ UNCHANGED <<pc, rd_res>>
               ELSE /\ rd_res' = Raised(x)
                    /\ pc' = RdExit
                    /\ UNCHANGED <<i, excps>>
    /\ UNCHANGED <<entry, retries, sec_between, sec_between_arg, check_status,
                   rd_timeout, manual_tries, req_timeout, w_args, w_vars>>

\* Lines 140-142: the loop ran out.
RdExhausted ==
    /\ pc = "rd_loop"
    /\ i >= manual_tries
    /\ rd_res' = IF excps # <<>> THEN Raised(LastFailure(excps)) ELSE ReturnedNone
    /\ pc' = RdExit
    /\ UNCHANGED <<entry, clock, retries, sec_between, sec_between_arg, check_status,
                   rd_timeout, manual_tries, req_timeout, i, excps, rd_log, w_args,
                   w_vars>>

\* No readurl call is in progress.
RdIdle ==
    /\ retries = None /\ sec_between = None /\ sec_between_arg = None
    /\ check_status = FALSE
    /\ rd_timeout = None /\ manual_tries = 0 /\ req_timeout = None
    /\ i = 0 /\ excps = <<>> /\ rd_log = <<>> /\ rd_res = Running

\* readurl's frame is gone once its caller has taken the result.
RdReturned ==
    /\ retries' = None /\ sec_between' = None /\ sec_between_arg' = None
    /\ check_status' = FALSE
    /\ rd_timeout' = None /\ manual_tries' = 0 /\ req_timeout' = None
    /\ i' = 0 /\ excps' = <<>> /\ rd_log' = <<>> /\ rd_res' = Running

\* ------------------------------------------------------------ wait_for_url
\* readurl's defaults for the arguments wait_for_url does not pass.
DefaultRetriesOne == 0 + 1
DefaultRetries == 0
DefaultSecBetween == 1

WRunning == [kind |-> "running", url |-> ""]
WUrl(u) == [kind |-> "url", url |-> u]
WFalse == [kind |-> "false", url |-> ""]
WRaised == [kind |-> "raise", url |-> ""]

\* timeup without the test of the elapsed time.
TimeupNoDeadline(mw, st, t) == IsNone(mw) \/ Val(mw) <= 0

\* timeup with the elapsed time truncated to whole seconds before the test.
TimeupTruncated(mw, st, t) ==
    (IsNone(mw) \/ Val(mw) <= 0) \/ (PyInt(t - st) > Val(mw))

\* timeup with "max_wait < 0" where the code has "max_wait <= 0".
TimeupStrict(mw, st, t) == (IsNone(mw) \/ Val(mw) < 0) \/ (t - st > Val(mw))

\* timeup(max_wait, start_time) evaluated when time.time() reads t.  In
\* Python 2 "None <= 0" is True.
Timeup(mw, st, t) == (IsNone(mw) \/ Val(mw) <= 0) \/ (t - st > Val(mw))

\* No back-off: the sleep stays at 1.
SleepTimeConstant(n) == 1

\* The sleep computed from the number of rounds completed, loop_n + 1.
SleepTimeAfterIncrement(n) == ((n + 1) \div 5) + 1

\* sleep_time = int(loop_n / 5) + 1
SleepTime(n) == (n \div 5) + 1

\* if timeout and (now + timeout > (start_time + max_wait))
NeedsShrink(t, nw, st, mw) == Truthy(t) /\ nw + Val(t) > st + Val(mw)

\* The remaining budget rounded up to whole seconds.
ShrunkRoundedUp(nw, st, mw) == Some(PyInt((st + Val(mw)) - nw + TicksPerSec - 1))

\* The remaining budget without int().
ShrunkExact(nw, st, mw) == Some((st + Val(mw)) - nw)

\* timeout = int((start_time + max_wait) - now)
Shrunk(nw, st, mw) == Some(PyInt((st + Val(mw)) - nw))

\* resp.ok(): the response's success flag, called as a method the way the
\* code calls it (the response class itself belongs to the transport).
RespOk(r) == StatusOk(r.code)

\* The evaluation without the test of the body.
EvaluateStatusOnly(r) ==
    IF ~RespOk(r) THEN Reason("bad status code", r.code) ELSE NoReason

\* The evaluation with the two tests in the other order.
EvaluateStatusFirst(r) ==
    IF ~RespOk(r) THEN Reason("bad status code", r.code)
    ELSE IF r.empty THEN Reason("empty response", r.code)
    ELSE NoReason

\* Lines 208-215: the reason a response is a failure, NoReason when it is not.
Evaluate(r) ==
    IF r.empty THEN Reason("empty response", r.code)
    ELSE IF ~RespOk(r) THEN Reason("bad status code", r.code)
    ELSE NoReason

\* Only "except exceptions.RequestException": anything else leaves the function.
CaughtRequestOnly(x) ==
    IF IsRequestException(x) THEN "request error" ELSE "escape"

\* Lines 216-219: the except clause that takes exception x.
Caught(x) ==
    IF IsRequestException(x) THEN "request error" ELSE "unexpected error"

\* status_msg = "Calling '%s' failed [%s/%ss]: %s" % (url, time_taken, max_wait, reason)
StatusMsg(u, taken, mw, rsn) ==
    [url |-> u, time_taken |-> taken, max_wait |-> mw, reason |-> rsn]

\* The report without the call of exception_cb.
CallbacksStatusOnly(msg, x, has_exception_cb) ==
    <<[cb |-> "status_cb", msg |-> msg, exception |-> NoExc]>>

\* Lines 225-227: the callbacks invoked for one failure, in order.
Callbacks(msg, x, has_exception_cb) ==
    <<[cb |-> "status_cb", msg |-> msg, exception |-> NoExc]>>
    \o (IF has_exception_cb
        THEN <<[cb |-> "exception_cb", msg |-> msg, exception |-> x]>>
        ELSE <<>>)

\* att_log before the first url attempt.
NoAttempt == [round |-> -1, idx |-> 0, url |-> "", checked |-> FALSE,
              shrunk |-> FALSE, before |-> None, now |-> 0, got |-> Running,
              reqs |-> 0, sleeps |-> 0]

\* The deadline test made in round 0 as well.
ChecksDeadlineAlways(n) == TRUE

\* if loop_n != 0
ChecksDeadline(n) == n # 0

\* Lines 175-187.
WfuEnter ==
    /\ pc = "wfu_enter"
    /\ start_time' = clock
    /\ loop_n' = 0
    /\ pc' = "round"
    /\ UNCHANGED <<entry, clock, rd_vars, w_args, timeout, sleep_time, idx, now,
                   reason, e, cb_log, att_log, n_failed, n_status_cb, n_exc_cb,
                   w_sleeps, w_res>>

\* Lines 188-190: the top of "while True".
WfuRound ==
    /\ pc = "round"
    /\ sleep_time' = SleepTime(loop_n)
    /\ idx' = 1
    /\ pc' = "for"
    /\ UNCHANGED <<entry, clock, rd_vars, w_args, timeout, start_time, loop_n, now,
                   reason, e, cb_log, att_log, n_failed, n_status_cb, n_exc_cb,
                   w_sleeps, w_res>>

\* Lines 190-207: the next url of the round, up to the call of readurl.
WfuNextUrl ==
    /\ pc = "for"
    /\ IF idx > Len(urls)
       THEN /\ pc' = "round_end"
            /\ UNCHANGED <<rd_vars, timeout, now, reason, e, cb_log, att_log, n_failed,
                           w_res>>
       ELSE LET checked == ChecksDeadline(loop_n)
                up == checked /\ Timeup(max_wait, start_time, clock)
                shrink == checked /\ ~up
                          /\ NeedsShrink(timeout, clock, start_time, max_wait)
                t1 == IF shrink THEN Shrunk(clock, start_time, max_wait) ELSE timeout
            IN /\ now' = clock
               /\ IF up
                  THEN /\ pc' = "round_end"
                       /\ UNCHANGED <<rd_vars, timeout, reason, e, cb_log, att_log,
                                      n_failed, w_res>>
                  ELSE /\ timeout' = t1
                       /\ cb_log' = <<>>
                       /\ att_log' = [round |-> loop_n, idx |-> idx, url |-> urls[idx],
                                      checked |-> checked, shrunk |-> shrink,
                                      before |-> timeout, now |-> clock,
                                      got |-> Running, reqs |-> 0, sleeps |-> 0]
                       /\ \E hraise \in (IF headers_cb THEN BOOLEAN ELSE {FALSE}) :
                            IF hraise
                            THEN LET x == Exc("Exception", 0, <<loop_n, idx>>, NoReason)
                                 IN /\ IF Caught(x) = "escape"
                                       THEN /\ w_res' = WRaised
                                            /\ pc' = "done"
                                            /\ UNCHANGED <<reason, e, n_failed>>
                                       ELSE /\ e' = x
                                            /\ reason' = Reason(Caught(x), 0)
                                            /\ n_failed' = n_failed + 1
                                            /\ pc' = "report"
                                            /\ UNCHANGED w_res
                                    /\ UNCHANGED rd_vars
                            ELSE /\ reason' = NoReason
                                 /\ retries' = Some(DefaultRetries)
                                 /\ sec_between' = Some(DefaultSecBetween)
                                 /\ sec_between_arg' = Some(DefaultSecBetween)
                                 /\ check_status' = FALSE
                                 /\ rd_timeout' = t1
                                 /\ pc' = "rd_enter"
                                 /\ UNCHANGED <<manual_tries, req_timeout, i, excps,
                                                rd_log, rd_res, e, n_failed, w_res>>
    /\ UNCHANGED <<entry, clock, w_args, sleep_time, start_time, loop_n, idx,
                   n_status_cb, n_exc_cb, w_sleeps>>

\* Lines 208-219: readurl has ended; judge what it gave.
WfuEval ==
    /\ pc = "wfu_eval"
    /\ LET a == <<loop_n, idx>>
           r == rd_res.resp
           x == IF rd_res.kind = "raise" THEN rd_res.exc
                ELSE IF rd_res.kind = "none"
                     THEN Exc("Exception", 0, a, NoReason)   \* None has no .contents
                     ELSE IF Evaluate(r) # NoReason
                          THEN Exc("ValueError", 0, a, Evaluate(r))
                          ELSE NoExc
           rsn == IF rd_res.kind = "return" THEN Evaluate(r)
                  ELSE Reason(Caught(x), x.text.code)
       IN IF x = NoExc
          THEN /\ w_res' = WUrl(urls[idx])
               /\ pc' = "done"
               /\ UNCHANGED <<reason, e, n_failed>>
          ELSE IF rsn.what = "escape"
          THEN /\ w_res' = WRaised
               /\ pc' = "done"
               /\ UNCHANGED <<reason, e, n_failed>>
          ELSE /\ reason' = rsn
               /\ e' = x
               /\ n_failed' = n_failed + 1
               /\ pc' = "report"
               /\ UNCHANGED w_res
    /\ att_log' = [att_log EXCEPT
                      !.got = rd_res,
                      !.reqs = Cardinality({k \in DOMAIN rd_log : rd_log[k].ev = "req"}),
                      !.sleeps = Cardinality({k \in DOMAIN rd_log : rd_log[k].ev = "sleep"})]
    /\ RdReturned
    /\ UNCHANGED <<entry, clock, w_args, timeout, sleep_time, start_time,
                   loop_n, idx, now, cb_log, n_status_cb, n_exc_cb, w_sleeps>>

\* Lines 221-227: report the failure, then go on to the next url.
WfuReport ==
    /\ pc = "report"
    /\ LET msg == StatusMsg(urls[idx], PyIntSec(clock - start_time), max_wait, reason)
           calls == Callbacks(msg, e, exception_cb)
       IN /\ cb_log' = calls
          /\ n_status_cb' = n_status_cb
                + Cardinality({k \in DOMAIN calls : calls[k].cb = "status_cb"})
          /\ n_exc_cb' = n_exc_cb
                + Cardinality({k \in DOMAIN calls : calls[k].cb = "exception_cb"})
    /\ idx' = idx + 1
    /\ pc' = "for"
    /\ UNCHANGED <<entry, clock, rd_vars, w_args, timeout, sleep_time, start_time,
                   loop_n, now, reason, e, att_log, n_failed, w_sleeps, w_res>>

\* Lines 229-237: the round is over (or was broken off).
WfuRoundEnd ==
    /\ pc = "round_end"
    /\ IF Timeup(max_wait, start_time, clock)
       THEN /\ w_res' = WFalse
            /\ pc' = "done"
            /\ UNCHANGED <<loop_n, w_sleeps, clock>>
       ELSE /\ loop_n < MaxRounds
            /\ loop_n' = loop_n + 1
            /\ w_sleeps' = Append(w_sleeps, sleep_time)
            /\ clock' = clock + sleep_time * TicksPerSec
            /\ pc' = "round"
            /\ UNCHANGED w_res
    /\ UNCHANGED <<entry, rd_vars, w_args, timeout, sleep_time, start_time, idx, now,
                   reason, e, cb_log, att_log, n_failed, n_status_cb, n_exc_cb>>

\* ------------------------------------------------------------ the callers
RetriesArgs == {None} \cup {Some(r) : r \in -1..MaxRetries}
SecBetweenArgs == {None} \cup {Some(s) : s \in -1..2}
TimeoutArgs == {None, Some(-1), Some(2 * TicksPerSec + 1)}
MaxWaitArgs == {None, Some(-1), Some(0), Some(TicksPerSec + 1),
                Some(3 * TicksPerSec), Some(LongWait * TicksPerSec)}
UrlLists == {<<>>, <<"A">>, <<"A", "B">>}

WfuLocalsInit ==
    /\ start_time = 0 /\ loop_n = 0 /\ idx = 0 /\ now = 0
    /\ reason = NoReason /\ e = NoExc
    /\ cb_log = <<>> /\ att_log = NoAttempt
    /\ n_failed = 0 /\ n_status_cb = 0 /\ n_exc_cb = 0
    /\ w_sleeps = <<>> /\ w_res = WRunning

\* A caller invokes readurl(url, timeout, retries, sec_between, check_status).
InitReadurl ==
    /\ entry = "readurl"
    /\ pc = "rd_enter"
    /\ retries \in RetriesArgs
    /\ sec_between \in SecBetweenArgs
    /\ sec_between_arg = sec_between
    /\ check_status \in BOOLEAN
    /\ rd_timeout \in {None, Some(-1), Some(TicksPerSec + 1)}
    /\ manual_tries = 0 /\ req_timeout = None
    /\ i = 0 /\ excps = <<>> /\ rd_log = <<>> /\ rd_res = Running
    /\ urls = <<>> /\ max_wait = None /\ timeout = None /\ timeout_arg = None
    /\ exception_cb = FALSE /\ headers_cb = FALSE /\ sleep_time = 1
    /\ WfuLocalsInit

\* A caller invokes wait_for_url(urls, max_wait, timeout, ..., sleep_time, ...).
InitWaitForUrl ==
    /\ entry = "wait_for_url"
    /\ pc = "wfu_enter"
    /\ RdIdle
    /\ urls \in UrlLists
    /\ max_wait \in MaxWaitArgs
    /\ timeout \in TimeoutArgs
    /\ timeout_arg = timeout
    /\ exception_cb \in BOOLEAN
    /\ headers_cb \in BOOLEAN
    /\ sleep_time \in {1, 4}
    /\ WfuLocalsInit

Init ==
    /\ clock = TicksPerSec + 1
    /\ (InitReadurl \/ InitWaitForUrl)

Next ==
    \/ RdEnter
    \/ RdAttempt
    \/ RdExhausted
    \/ WfuEnter
    \/ WfuRound
    \/ WfuNextUrl
    \/ WfuEval
    \/ WfuReport
    \/ WfuRoundEnd

Spec == Init /\ [][Next]_vars

\* The same calls under a scheduler that lets the running call take its next
\* step: the code is one blocking thread, every fetch and every sleep ends.
LiveSpec == Init /\ [][Next]_vars /\ WF_vars(Next)

\* ================================================================ claims
\* ---------------------------------------------------------------- readurl
\* The positions of rd_log that are transport requests.
ReqPositions == {k \in DOMAIN rd_log : rd_log[k].ev = "req"}
SleepPositions == {k \in DOMAIN rd_log : rd_log[k].ev = "sleep"}
NumReqs == Cardinality(ReqPositions)

\* The success condition of one attempt: the transport gave a response and,
\* when check_status is on, its status is in the success range.
Succeeds(out) ==
    out.kind = "Response" /\ (check_status => (out.code >= 200 /\ out.code < 400))

\* A failure that readurl records and retries.
FailsRetryably(out) ==
    \/ out.kind = "RequestException"
    \/ out.kind = "Response" /\ check_status /\ ~(out.code >= 200 /\ out.code < 400)

\* C1: for every retries r >= 0, a readurl call issues at most r + 1 transport
\* requests, and it returns the response of the first attempt that succeeds,
\* with no request after that attempt.
C1_AtMostTriesFirstSuccess ==
    /\ (~IsNone(retries) /\ Val(retries) >= 0) => NumReqs <= Val(retries) + 1
    /\ \A k \in ReqPositions :
         Succeeds(rd_log[k].out) =>
            /\ k = Len(rd_log)
            /\ rd_res = Returned(Resp(rd_log[k].out.code, rd_log[k].out.empty))
            /\ \A j \in ReqPositions : j < k => ~Succeeds(rd_log[j].out)
    /\ rd_res.kind = "return" =>
            /\ rd_log # <<>>
            /\ rd_log[Len(rd_log)].ev = "req"
            /\ Succeeds(rd_log[Len(rd_log)].out)

\* C1's case: with retries = 2, the first attempt failed and the second one
\* succeeded and was returned.
C1_Witness ==
    /\ entry = "readurl"
    /\ retries = Some(2)
    /\ rd_res.kind = "return"
    /\ NumReqs = 2
    /\ excps # <<>>

\* C2: when every one of the retries + 1 attempts fails, the failure raised is
\* the one recorded for the last attempt.
C2_RaisesLastFailure ==
    (rd_res.kind = "raise" /\ NumReqs = manual_tries
        /\ \A k \in ReqPositions : FailsRetryably(rd_log[k].out)) =>
       LET last == rd_log[CHOOSE k \in ReqPositions : \A j \in ReqPositions : j <= k]
       IN /\ rd_res.exc.i = manual_tries - 1
          /\ rd_res.exc.i = last.i
          /\ rd_res.exc.type = (IF last.out.kind = "RequestException"
                                THEN "RequestException" ELSE "HTTPError")
          /\ rd_res.exc.text.code = last.out.code
          /\ Len(excps) = manual_tries
          /\ rd_res.exc = excps[Len(excps)]

\* C2's case: three attempts failed, the first and the last in different ways.
C2_Witness ==
    /\ entry = "readurl"
    /\ rd_res.kind = "raise"
    /\ manual_tries = 3
    /\ Len(excps) = 3
    /\ excps[1].type # excps[3].type

\* C3: readurl sleeps exactly after a failed attempt that is not the last one
\* and only when sec_between > 0: each such sleep lasts sec_between, there is
\* one between consecutive attempts, and none with sec_between <= 0 or None.
C3_SleepsBetweenAttempts ==
    LET positive == ~IsNone(sec_between_arg) /\ Val(sec_between_arg) > 0
    IN /\ ~positive => SleepPositions = {}
       /\ \A k \in SleepPositions :
            /\ positive
            /\ rd_log[k].arg = sec_between_arg
            /\ k > 1
            /\ rd_log[k - 1].ev = "req"
            /\ rd_log[k - 1].i = rd_log[k].i
            /\ FailsRetryably(rd_log[k - 1].out)
            /\ rd_log[k].i + 1 < manual_tries
       /\ \A k \in ReqPositions :
            (positive /\ FailsRetryably(rd_log[k].out)
                /\ rd_log[k].i + 1 < manual_tries) =>
               /\ k < Len(rd_log)
               /\ rd_log[k + 1].ev = "sleep"
       /\ \A k \in ReqPositions :
            (k > 1 /\ positive) => rd_log[k - 1].ev = "sleep"

\* C3's case: three failed attempts with sec_between = 2: request, sleep,
\* request, sleep, request, and the failure is raised without a third sleep.
C3_Witness ==
    /\ entry = "readurl"
    /\ sec_between_arg = Some(2)
    /\ rd_res.kind = "raise"
    /\ Len(rd_log) = 5
    /\ rd_log[2].ev = "sleep" /\ rd_log[4].ev = "sleep" /\ rd_log[5].ev = "req"

\* ------------------------------------------------------------ wait_for_url
\* A url attempt is under way: its readurl call has been made and the
\* failure, if any, has not been reported yet.
Attempting == pc \in {"rd_enter", "rd_loop", "wfu_eval", "report"}

\* The deadline of the poll.
Deadline == start_time + Val(max_wait)

\* C4: with max_wait 0, negative or None, wait_for_url makes exactly one
\* round: the urls are attempted once each in list order (up to a success),
\* and without a success it returns False, never sleeping, never starting a
\* second round.
C4_OneRoundWithoutBudget ==
    (entry = "wait_for_url" /\ (IsNone(max_wait) \/ Val(max_wait) <= 0)) =>
       /\ loop_n = 0
       /\ w_sleeps = <<>>
       /\ Attempting =>
            /\ att_log.round = 0
            /\ att_log.idx = idx
            /\ att_log.url = urls[idx]
            /\ n_failed = (IF pc = "report" THEN idx ELSE idx - 1)
       /\ w_res.kind = "false" => (n_failed = Len(urls) /\ idx = Len(urls) + 1)
       /\ w_res.kind = "url" => (w_res.url = urls[idx] /\ n_failed = idx - 1)

\* C4's case: max_wait = 0, two urls, both failed once, False returned.
C4_Witness ==
    /\ max_wait = Some(0)
    /\ urls = <<"A", "B">>
    /\ w_res.kind = "false"
    /\ n_failed = 2
    /\ n_status_cb = 2

\* C5: wait_for_url returns the first url, in list order within the round,
\* whose attempt gives a non-empty body and a success status; it returns at
\* once (no later url is requested) and calls neither callback for that attempt.
C5_FirstGoodUrlReturned ==
    /\ w_res.kind = "url" =>
         /\ pc = "done"
         /\ idx \in DOMAIN urls
         /\ w_res.url = urls[idx]
         /\ att_log.url = w_res.url /\ att_log.idx = idx /\ att_log.round = loop_n
         /\ att_log.got.kind = "return"
         /\ ~att_log.got.resp.empty
         /\ att_log.got.resp.code >= 200 /\ att_log.got.resp.code < 400
         /\ cb_log = <<>>
         /\ n_status_cb = n_failed /\ n_exc_cb \in {0, n_failed}
         /\ rd_res = Running /\ rd_log = <<>>
    /\ (att_log.got.kind = "return" /\ ~att_log.got.resp.empty
          /\ att_log.got.resp.code >= 200 /\ att_log.got.resp.code < 400) =>
         (w_res.kind = "url" /\ w_res.url = att_log.url)

\* C5's case: [A, B], A failed (and was reported), B succeeded in the same
\* round and is returned with no callback for B.
C5_Witness ==
    /\ urls = <<"A", "B">>
    /\ w_res = WUrl("B")
    /\ loop_n = 0
    /\ n_failed = 1 /\ n_status_cb = 1
    /\ cb_log = <<>>

\* The precondition of C6: in a round after the first, readurl is being
\* called for a url with a configured timeout that would pass the deadline.
C6_Case ==
    /\ entry = "wait_for_url"
    /\ pc = "rd_enter"
    /\ att_log.round # 0
    /\ ~IsNone(max_wait)
    /\ ~IsNone(att_log.before)
    /\ att_log.now + Val(att_log.before) > Deadline

\* C6 as stated: the timeout passed to the fetch is exactly deadline - now.
C6_ExactRemainder ==
    C6_Case => rd_timeout = Some(Deadline - att_log.now)

\* C6 amended: the timeout passed to the fetch is deadline - now truncated to
\* whole seconds (so at most deadline - now, possibly 0), never the
\* configured value.
C6_TruncatedRemainder ==
    C6_Case =>
       /\ ~IsNone(rd_timeout)
       /\ Val(rd_timeout) % TicksPerSec = 0
       /\ Val(rd_timeout) <= Deadline - att_log.now
       /\ Deadline - att_log.now - Val(rd_timeout) < TicksPerSec
       /\ Val(rd_timeout) >= 0
       /\ rd_timeout # att_log.before
       /\ timeout = rd_timeout

\* C6's case with a remaining budget that is not a whole number of seconds.
C6_Witness ==
    /\ C6_Case
    /\ (Deadline - att_log.now) % TicksPerSec # 0
    /\ Val(rd_timeout) > 0

\* C7: the k-th sleep of a poll, taken after the failed round of index
\* n = k - 1, lasts n // 5 + 1, whatever sleep_time the caller passed; the
\* sleeps never get shorter.
C7_SleepSchedule ==
    /\ Len(w_sleeps) = loop_n
    /\ \A k \in DOMAIN w_sleeps : w_sleeps[k] = ((k - 1) \div 5) + 1
    /\ \A k \in DOMAIN w_sleeps : k > 1 => w_sleeps[k - 1] <= w_sleeps[k]

\* C7's case: eleven failed rounds over a non-empty url list, with the sleeps
\* 1,1,1,1,1,2,2,2,2,2,3 (rounds 0, 4, 5, 9 and 10 are named).
C7_Witness ==
    /\ Len(w_sleeps) = 11
    /\ w_sleeps[1] = 1 /\ w_sleeps[5] = 1 /\ w_sleeps[6] = 2
    /\ w_sleeps[10] = 2 /\ w_sleeps[11] = 3
    /\ urls # <<>>

\* C8: an empty body is the failure "empty response [code]" whatever the
\* status; a non-empty body with a non-success status is the failure "bad
\* status code [code]"; a non-empty body with a success status is success.
C8_ResponseEvaluation ==
    att_log.got.kind = "return" =>
       LET r == att_log.got.resp
           good == r.code >= 200 /\ r.code < 400
       IN /\ r.empty =>
               /\ reason = Reason("empty response", r.code)
               /\ w_res.kind # "url"
          /\ (~r.empty /\ ~good) =>
               /\ reason = Reason("bad status code", r.code)
               /\ w_res.kind # "url"
          /\ (~r.empty /\ good) => w_res = WUrl(att_log.url)
          /\ (cb_log # <<>> /\ w_res.kind # "url") => cb_log[1].msg.reason = reason

\* C8's case: a response with status 200 and an empty body was reported as
\* "empty response [200]".
C8_Witness ==
    /\ att_log.got.kind = "return"
    /\ att_log.got.resp = Resp(200, TRUE)
    /\ cb_log # <<>>
    /\ cb_log[1].msg.reason = Reason("empty response", 200)

\* C9: no failure of a fetch attempt leaves wait_for_url: a call ends by
\* returning one of the urls or False.
C9_NoFailureEscapes ==
    entry = "wait_for_url" =>
       /\ w_res.kind # "raise"
       /\ pc = "done" =>
            \/ w_res = WFalse
            \/ \E k \in DOMAIN urls : w_res = WUrl(urls[k])

\* C9's case: the last attempt raised an exception that is no
\* RequestException, and the call still ended by returning False.
C9_Witness ==
    /\ entry = "wait_for_url"
    /\ pc = "done"
    /\ w_res = WFalse
    /\ reason.what = "unexpected error"
    /\ att_log.got.kind = "raise"

\* C10: for every failed attempt status_cb is called once with the status
\* message and then, when supplied, exception_cb once with the same message
\* and the failure object of that attempt, before the next url is attempted.
C10_CallbacksPerFailure ==
    entry = "wait_for_url" =>
       /\ n_status_cb = (IF pc = "report" THEN n_failed - 1 ELSE n_failed)
       /\ n_exc_cb = (IF exception_cb THEN n_status_cb ELSE 0)
       /\ cb_log # <<>> =>
            /\ Len(cb_log) = (IF exception_cb THEN 2 ELSE 1)
            /\ cb_log[1].cb = "status_cb"
            /\ cb_log[1].msg.url = att_log.url
            /\ cb_log[1].msg.reason = reason
            /\ exception_cb =>
                 /\ cb_log[2].cb = "exception_cb"
                 /\ cb_log[2].msg = cb_log[1].msg
                 /\ cb_log[2].exception = e
                 /\ cb_log[2].exception.att = <<att_log.round, att_log.idx>>
                 /\ cb_log[2].exception.type # "none"

\* C10's case: a second failed attempt has been reported through both
\* callbacks, and the next attempt has not started.
C10_Witness ==
    /\ exception_cb
    /\ pc = "for"
    /\ n_failed = 2 /\ n_status_cb = 2 /\ n_exc_cb = 2
    /\ Len(cb_log) = 2
    /\ cb_log[2].exception.type = "ValueError"

\* ------------------------------------------------------- readurl, continued
\* A response whose status is outside the success range.
BadStatus(out) == out.kind = "Response" /\ ~(out.code >= 200 /\ out.code < 400)

\* What readurl does after the failed request at position k of rd_log, as a
\* transport failure is handled: the failure is recorded as the (i+1)-th entry
\* of excps, the call goes on, and the sleep follows exactly when another try
\* remains and sec_between > 0.
HandledAsFailure(k) ==
    LET n == rd_log[k].i
        more == n + 1 < manual_tries
        pause == more /\ ~IsNone(sec_between_arg) /\ Val(sec_between_arg) > 0
    IN /\ Len(excps) > n
       /\ excps[n + 1].i = n
       /\ excps[n + 1].type \in {"RequestException", "HTTPError"}
       /\ pause <=> (k < Len(rd_log) /\ rd_log[k + 1].ev = "sleep")
       /\ ~more =>
            /\ k = Len(rd_log)
            /\ rd_res.kind \in {"running", "raise"}
            /\ rd_res.kind = "raise" => rd_res.exc = excps[n + 1]
       /\ more => rd_res.kind # "return" \/ k < Len(rd_log)

\* C11: with check_status on, a response with a non-success status is
\* handled as a transport failure is (recorded, same sleep and retry, raised
\* when the tries are used up); with check_status off it is returned on that
\* attempt and nothing follows.
C11_BadStatusIsAFailure ==
    \A k \in ReqPositions :
       /\ rd_log[k].out.kind = "RequestException" => HandledAsFailure(k)
       /\ (BadStatus(rd_log[k].out) /\ check_status) =>
            /\ HandledAsFailure(k)
            /\ excps[rd_log[k].i + 1].type = "HTTPError"
            /\ excps[rd_log[k].i + 1].text.code = rd_log[k].out.code
       /\ (BadStatus(rd_log[k].out) /\ ~check_status) =>
            /\ k = Len(rd_log)
            /\ rd_res = Returned(Resp(rd_log[k].out.code, rd_log[k].out.empty))

\* C11's case: check_status on, three responses with status 503 and a sleep
\* after the first two; the HTTP error of the third is raised.
C11_Witness ==
    /\ entry = "readurl"
    /\ check_status
    /\ Len(rd_log) = 5
    /\ \A k \in {1, 3, 5} : BadStatus(rd_log[k].out)
    /\ rd_log[2].ev = "sleep" /\ rd_log[4].ev = "sleep"
    /\ rd_res.kind = "raise" /\ rd_res.exc.type = "HTTPError" /\ rd_res.exc.i = 2

\* C16: every transport request readurl issues carries no timeout when the
\* caller passed None, and otherwise a timeout that is not negative; so do
\* the requests of wait_for_url, with a shrunk timeout too.
C16_TimeoutNotNegative ==
    \A k \in ReqPositions :
       /\ IsNone(rd_log[k].arg) <=> IsNone(rd_timeout)
       /\ ~IsNone(rd_log[k].arg) =>
            /\ Val(rd_log[k].arg) >= 0
            /\ Val(rd_log[k].arg) >= Val(rd_timeout)
            /\ Val(rd_timeout) >= 0 => rd_log[k].arg = rd_timeout
       /\ entry = "wait_for_url" => rd_timeout = timeout

\* C16's case: wait_for_url was given timeout -1 and its request went out
\* with timeout 0.
C16_Witness ==
    /\ entry = "wait_for_url"
    /\ rd_timeout = Some(-1)
    /\ rd_log # <<>>
    /\ rd_log[1].ev = "req" /\ rd_log[1].arg = Some(0)

\* C17: whatever retries is (0, None and negative values too), manual_tries
\* is at least 1 and a readurl call never ends by returning None: it returns
\* a response or raises.
C17_NeverReturnsNone ==
    /\ rd_res.kind # "none"
    /\ pc = "rd_loop" =>
         /\ manual_tries >= 1
         /\ i >= manual_tries => excps # <<>>
         /\ (~IsNone(retries) /\ Val(retries) >= 0) => manual_tries = Val(retries) + 1
         /\ (IsNone(retries) \/ Val(retries) < 0) => manual_tries = 1
    /\ (entry = "readurl" /\ pc = "done") => rd_res.kind \in {"return", "raise"}
    /\ pc = "wfu_eval" => rd_res.kind \in {"return", "raise"}

\* C17's case: retries = -1, one request made, its failure raised.
C17_Witness ==
    /\ entry = "readurl"
    /\ retries = Some(-1)
    /\ pc = "done"
    /\ NumReqs = 1
    /\ rd_res.kind = "raise"

\* C20: readurl records and retries only RequestExceptions; any other
\* exception raised in an attempt reaches the caller at once, with no sleep
\* and no further attempt, whatever tries remain.
C20_OtherExceptionsPropagate ==
    /\ \A k \in ReqPositions :
         rd_log[k].out.kind = "Exception" =>
            /\ k = Len(rd_log)
            /\ rd_res.kind = "raise"
            /\ rd_res.exc.type = "Exception"
            /\ rd_res.exc.i = rd_log[k].i
            /\ \A j \in DOMAIN excps : excps[j] # rd_res.exc
            /\ i = rd_log[k].i
    /\ \A j \in DOMAIN excps : excps[j].type \in {"RequestException", "HTTPError"}
    /\ Len(excps) = Cardinality({k \in ReqPositions : FailsRetryably(rd_log[k].out)})

\* C20's case: retries = 2 and sec_between = 1, the first attempt raised an
\* exception that is no RequestException: it is raised after one request.
C20_Witness ==
    /\ entry = "readurl"
    /\ retries = Some(2)
    /\ sec_between_arg = Some(1)
    /\ pc = "done"
    /\ Len(rd_log) = 1
    /\ rd_log[1].out.kind = "Exception"
    /\ rd_res.kind = "raise" /\ rd_res.exc.type = "Exception"

\* ------------------------------------------------- wait_for_url, continued
\* The elapsed time has passed max_wait.
Overdue == ~IsNone(max_wait) /\ clock - start_time > Val(max_wait)

\* The url attempt att_log describes is over.
AttemptOver ==
    /\ entry = "wait_for_url"
    /\ att_log.round >= 0
    /\ pc \notin {"rd_enter", "rd_loop", "wfu_eval"}

\* C12: in every round after the first the deadline (start_time + max_wait,
\* start_time never reset) is tested before each url: once the elapsed time
\* exceeds max_wait, neither that url nor a later one is requested, no sleep
\* and no round follows, and False is returned.
C12_DeadlineBeforeEachUrl ==
    [][ entry = "wait_for_url" =>
          /\ pc # "wfu_enter" => start_time' = start_time
          /\ (pc = "for" /\ loop_n # 0 /\ idx <= Len(urls) /\ Overdue) =>
               /\ pc' = "round_end"
               /\ UNCHANGED <<idx, loop_n, w_sleeps, clock, rd_log, att_log, n_failed>>
          /\ (pc = "for" /\ loop_n # 0 /\ pc' \in {"rd_enter", "report"}) => ~Overdue
          /\ (pc = "round_end" /\ loop_n # 0 /\ Overdue) =>
               /\ pc' = "done"
               /\ w_res' = WFalse
               /\ UNCHANGED <<idx, loop_n, w_sleeps, clock, rd_log, att_log, n_failed>>
      ]_vars

\* C12's case: in a later round the deadline passed during the fetch of the
\* first url; the second url was not attempted and False was returned.
C12_Witness ==
    /\ entry = "wait_for_url"
    /\ pc = "done" /\ w_res = WFalse
    /\ loop_n >= 1
    /\ Len(urls) = 2 /\ idx = 2
    /\ att_log.round = loop_n /\ att_log.idx = 1

\* C14: round 0 neither tests the deadline nor touches the timeout: its urls
\* are fetched with the timeout the caller passed (also one above max_wait),
\* and False is returned only after every url has been attempted.
C14_RoundZeroUntouched ==
    entry = "wait_for_url" =>
       /\ loop_n = 0 => timeout = timeout_arg
       /\ att_log.round = 0 =>
            /\ ~att_log.checked /\ ~att_log.shrunk
            /\ att_log.before = timeout_arg
       /\ (loop_n = 0 /\ pc \in {"rd_enter", "rd_loop"}) => rd_timeout = timeout_arg
       /\ (loop_n = 0 /\ pc = "round_end") =>
            (idx = Len(urls) + 1 /\ n_failed = Len(urls))
       /\ w_res = WFalse => n_failed >= Len(urls)

\* C14's case: in round 0 a url is fetched with the caller's timeout, which
\* is larger than max_wait.
C14_Witness ==
    /\ entry = "wait_for_url"
    /\ pc = "rd_loop" /\ loop_n = 0 /\ idx = 2
    /\ ~IsNone(max_wait) /\ Val(max_wait) > 0
    /\ ~IsNone(timeout_arg) /\ Val(timeout_arg) > Val(max_wait)
    /\ req_timeout = timeout_arg

\* C15 as stated: the sleep equals (rounds completed so far) // 5 + 1, the
\* k-th sleep being taken when k rounds are completed.
C15_CompletedRoundsCount ==
    \A k \in DOMAIN w_sleeps : w_sleeps[k] = (k \div 5) + 1

\* C15 amended: when a round ends without success and the deadline has not
\* passed, loop_n is incremented and the sleep equals (rounds completed
\* before the round that just ended) // 5 + 1, i.e. loop_n // 5 + 1 with
\* loop_n read before the increment.
C15_SleepFromRoundIndex ==
    [][ (entry = "wait_for_url" /\ pc = "round_end" /\ ~IsNone(max_wait)
           /\ Val(max_wait) > 0 /\ ~Overdue) =>
          /\ loop_n' = loop_n + 1
          /\ pc' = "round"
          /\ w_sleeps' = Append(w_sleeps, (loop_n \div 5) + 1)
          /\ clock' = clock + ((loop_n \div 5) + 1) * TicksPerSec
          /\ w_res' = WRunning
      ]_vars

\* C15's case: the sleep after the fifth round is still 1, the one after the
\* sixth is 2.
C15_Witness ==
    /\ pc = "round" /\ loop_n = 6
    /\ Len(w_sleeps) = 6
    /\ w_sleeps[5] = 1 /\ w_sleeps[6] = 2

\* C18: within one wait_for_url call the timeout never grows from one
\* attempt to the next, and a request made in a round after the first with
\* a timeout set ends, by its timeout, no later than the deadline.
C18_TimeoutOnlyShrinks ==
    [][ entry = "wait_for_url" =>
          /\ IsNone(timeout') <=> IsNone(timeout)
          /\ ~IsNone(timeout) => Val(timeout') <= Val(timeout)
          /\ (pc' = "rd_enter" /\ loop_n' # 0 /\ ~IsNone(timeout')) =>
               /\ rd_timeout' = timeout'
               /\ att_log'.now = clock'
               /\ att_log'.now + Val(rd_timeout') <= start_time' + Val(max_wait')
          /\ (pc' = "rd_loop" /\ loop_n' # 0 /\ ~IsNone(req_timeout')) =>
               att_log'.now + Val(req_timeout') <= start_time' + Val(max_wait')
      ]_vars

\* C18's case: in the third round a request is under way with a timeout
\* that was shrunk below the one the caller passed.
C18_Witness ==
    /\ entry = "wait_for_url"
    /\ pc = "rd_loop" /\ loop_n = 2
    /\ att_log.shrunk
    /\ Val(timeout) < Val(att_log.before)
    /\ Val(att_log.before) < Val(timeout_arg)
    /\ req_timeout = timeout

\* C19 as stated: every url attempt makes exactly one transport request and
\* no sleep inside readurl.
C19_OneRequestPerAttempt ==
    AttemptOver => (att_log.reqs = 1 /\ att_log.sleeps = 0)

\* C19 amended: every url attempt makes no sleep inside readurl and at most
\* one transport request: exactly one when readurl is reached (it is called
\* with retries = 0 and check_status = False), none when headers_cb raised.
C19_OneRequestPerReadurlCall ==
    /\ AttemptOver =>
         /\ att_log.sleeps = 0
         /\ att_log.reqs = (IF att_log.got.kind = "running" THEN 0 ELSE 1)
         /\ att_log.got.kind = "running" =>
              (headers_cb /\ reason.what = "unexpected error")
    /\ (entry = "wait_for_url" /\ pc \in {"rd_enter", "rd_loop", "wfu_eval"}) =>
         /\ retries = Some(0) /\ ~check_status
         /\ pc # "rd_enter" => manual_tries = 1
         /\ SleepPositions = {}
         /\ NumReqs = (IF pc = "wfu_eval" /\ ~(rd_res.kind = "raise" /\ excps = <<>> /\ rd_log = <<>>)
                       THEN 1 ELSE Len(rd_log))
         /\ NumReqs <= 1
         /\ pc = "wfu_eval" => NumReqs = 1

\* C19's case: a url attempt whose single request raised a RequestException
\* has ended; readurl made one request and did not sleep.
C19_Witness ==
    /\ AttemptOver
    /\ pc = "report"
    /\ att_log.got.kind = "raise"
    /\ att_log.got.exc.type = "RequestException"
    /\ att_log.reqs = 1 /\ att_log.sleeps = 0

\* C13: with a finite max_wait > 0 (sleeps advance the clock, fetches end),
\* every wait_for_url call eventually returns, a url or False, also when no
\* url ever succeeds and when the list is empty.
C13_EventuallyReturns ==
    (entry = "wait_for_url" /\ ~IsNone(max_wait) /\ Val(max_wait) > 0)
       ~> (pc = "done" /\ w_res.kind \in {"url", "false"})

\* C13's case: a poll of the empty list with the longest max_wait has
\* returned False after its rounds of sleeping.
C13_Witness ==
    /\ entry = "wait_for_url"
    /\ urls = <<>>
    /\ max_wait = Some(LongWait * TicksPerSec)
    /\ loop_n >= 10
    /\ pc = "done" /\ w_res = WFalse

====
